---- MODULE Spec2Model ----
(***************************************************************************)
(* A model of the page-transcription pipelines of                          *)
(* process-pdf-for-studyfellow:                                            *)
(*   - process-unprocessed/transcribe_documents_onepage_6.py (Firestore,   *)
(*     first pass, one page per group, thread pool per batch),             *)
(*   - process-processed/transcribe_error_page6.py (Firestore, error       *)
(*     recovery of the missing pages of processed documents),              *)
(*   - transcribe_documents_twopage.py (Supabase, first pass, cover plus   *)
(*     two-page groups, records keyed by document_id),                     *)
(*   - transcribe_document.py (Supabase, first pass, cover plus two-page   *)
(*     groups, records keyed by file_name only),                           *)
(*   - the page splitters and get_missing_pages as pure operators.         *)
(* The remote services (document database, object storage, generative      *)
(* model) are the environment: each remote call is one step, and its       *)
(* outcome (a response kind, a failure) is a nondeterministic choice.      *)
(***************************************************************************)
EXTENDS Integers, Sequences, FiniteSets, Bags, TLC

\* ------------------------------------------------------------- bounds

\* The largest page count of a stored PDF.
MaxPages == 2

\* Copies of one identical record the store's model tells apart: a count
\* of MaxCopies stands for "MaxCopies or more".
MaxCopies == 2

\* The longest list of requested pages / problem ranges given to a splitter.
MaxReq == 2

\* The largest page count of the PDF whose dispatch through the thread pool
\* is followed: more pages than a batch holds, more in a batch than workers.
MaxPoolPages == 4

\* ------------------------------------------------------- the data model

Docs == {"d1", "d2"}

Files == {"f1", "f2"}

\* The order in which a query returns documents.
DocOrder == <<"d1", "d2">>

\* document_id of a record inserted without one (transcribe_document.py).
NoDoc == "none"

Invs == {1, 2}

StatusValues == {"unprocessed", "processed", "deleted", "deleted_applied"}

\* The selector value the scripts filter on (random == 6), and one other.
TargetRandom == 6

RandomValues == {5, 6}

Responses == {"text", "empty_text", "no_candidates", "exception"}

Kinds == {"onepage", "recovery", "twopage", "document"}

Backends == {"firestore", "supabase_id", "supabase_file"}

\* ------------------------------------------------------ pure operators

RECURSIVE SortAsc(_)
\* list(S) followed by .sort(): the elements of S in ascending order.
SortAsc(S) ==
    IF S = {} THEN <<>>
    ELSE LET m == CHOOSE x \in S : \A y \in S : x <= y
         IN <<m>> \o SortAsc(S \ {m})

Range(s) == {s[k] : k \in 1..Len(s)}

\* range(a, b, 2) as a sequence.
RangeStep2(a, b) == [k \in 1..(IF b > a THEN (b - a + 1) \div 2 ELSE 0) |-> a + 2 * (k - 1)]

\* A splitter's result: it either raised, or returned the list of groups. A
\* group's data is the list of the 1-indexed source pages added to its writer.
Raised == [ok |-> FALSE, groups |-> <<>>]

Returned(gs) == [ok |-> TRUE, groups |-> gs]

\* transcribe_documents_onepage_6.py split_pdf_in_memory: one page per group.
SplitOnePage(L) ==
    Returned([k \in 1..L |-> [page |-> k, data |-> <<k>>]])

\* A variant that takes the page after i + 1 without looking at the page
\* count; C10 tells it from the code's.
TwoPageGroupDataAlwaysPair(i, L) == <<i + 1, i + 2>>

\* The (0-based) first page index i of the k-th two-page group, range(1, L, 2).
TwoPageGroupData(i, L) ==
    IF i + 1 < L THEN <<i + 1, i + 2>> ELSE <<i + 1>>

\* transcribe_documents_twopage.py split_pdf_in_memory: the cover, then two
\* pages per group; a group carries its first page only. reader.pages[0]
\* raises IndexError on a PDF without pages.
SplitTwoPage(L) ==
    IF L = 0 THEN Raised
    ELSE LET idx == RangeStep2(1, L)
         IN Returned(<<[page |-> 1, data |-> <<1>>]>> \o
                [k \in 1..Len(idx) |->
                    [page |-> idx[k] + 1, data |-> TwoPageGroupData(idx[k], L)]])

\* transcribe_document.py split_pdf_in_memory: as above, with page_start and
\* page_end carried by each group.
SplitTwoPageRange(L) ==
    IF L = 0 THEN Raised
    ELSE LET idx == RangeStep2(1, L)
         IN Returned(<<[page_start |-> 1, page_end |-> 1, data |-> <<1>>]>> \o
                [k \in 1..Len(idx) |->
                    [page_start |-> idx[k] + 1,
                     page_end |-> IF idx[k] + 1 < L THEN idx[k] + 2 ELSE idx[k] + 1,
                     data |-> TwoPageGroupData(idx[k], L)]])

RECURSIVE ExtractGroups(_, _)
ExtractGroups(L, pages) ==
    IF pages = <<>> THEN <<>>
    ELSE LET p == Head(pages)
         IN (IF p <= L THEN <<[page |-> p, data |-> <<p>>]>> ELSE <<>>)
            \o ExtractGroups(L, Tail(pages))

\* A variant that also takes the page just beyond the PDF; C8 tells it from
\* the code's.
ExtractSpecificPagesBeyond(L, missing_pages) ==
    [ok |-> TRUE, groups |-> ExtractGroups(L + 1, missing_pages)]

\* A variant whose test is page_num < len(reader.pages), as in the per-problem
\* split of the workbook script; C25 tells it from the code's.
RECURSIVE ExtractGroupsStrict(_, _)
ExtractGroupsStrict(L, pages) ==
    IF pages = <<>> THEN <<>>
    ELSE LET p == Head(pages)
         IN (IF p < L THEN <<[page |-> p, data |-> <<p>>]>> ELSE <<>>)
            \o ExtractGroupsStrict(L, Tail(pages))

ExtractSpecificPagesStrict(L, missing_pages) ==
    Returned(ExtractGroupsStrict(L, missing_pages))

\* transcribe_error_page6.py extract_specific_pages_from_pdf: one singleton
\* group per requested page that is not beyond the PDF (requested pages are
\* the positive numbers get_missing_pages returns).
ExtractSpecificPages(L, missing_pages) ==
    Returned(ExtractGroups(L, missing_pages))

\* transcribe_workbook.py process_workbook, the per-problem split: the pages
\* start_page..end_page that exist in the PDF, as one chunk per problem.
ProblemChunk(L, problem) ==
    [problem_number |-> problem.problem_number,
     data |-> SortAsc({p \in problem.start_page..problem.end_page : p - 1 < L})]

SplitProblems(L, problems) ==
    Returned([k \in 1..Len(problems) |-> ProblemChunk(L, problems[k])])


\* ---------------------------------------------------------- the state

VARIABLES
    backend,         \* which deployment the scripts run against
    metadata,        \* collection document_metadata: one record per document
    storage,         \* object storage: the page count of each stored PDF
    transcriptions,  \* collection document_transcriptions: a bag of records
    inv,             \* the running invocations of the scripts
    call             \* the call of a function outside the pipeline executions:
                     \* a pure operator with its result, or the progress of
                     \* assign_random_numbers or of process_workbook

vars == <<backend, metadata, storage, transcriptions, inv, call>>

\* The scripts a deployment runs.
KindsOf(b) ==
    CASE b = "firestore" -> {"onepage", "recovery"}
      [] b = "supabase_id" -> {"twopage"}
      [] b = "supabase_file" -> {"document"}

NoFuture == [state |-> "unsubmitted", response |-> "none", saved |-> "none"]

\* An execution of a script that has not started. random is the selector value
\* the script's selection filters on. report keeps, per document, how the
\* error-recovery script's pass over it ended (what its log lines say).
Idle ==
    [kind |-> "idle", random |-> TargetRandom, pc |-> "idle",
     deleted_docs |-> <<>>, unprocessed_ids |-> <<>>,
     docs |-> <<>>, missing_pages |-> <<>>, split_pdfs |-> <<>>, futures |-> <<>>,
     batch |-> 0, report |-> [d \in Docs |-> "none"]]

\* An execution that is over: the script returned, or its process was killed.
Finished(me, how) == [Idle EXCEPT !.kind = "finished", !.pc = how, !.report = me.report]

NoCall == [fn |-> "none"]

\* ----------------------------------------------------- store operators

\* .where(field == value).stream(): the matching documents, in query order.
DocsWhere(matching) == SelectSeq(DocOrder, LAMBDA d : d \in matching)

HasStatus(d, s) == metadata[d].status = s

\* The records a query .where('document_id', '==', doc_id) returns.
RecordsOf(store, doc_id) == {r \in BagToSet(store) : r.document_id = doc_id}

\* Deleting every record of doc_id: the delete loops of process_documents
\* (Firestore) and delete().eq('document_id', doc_id) (Supabase).
DeleteTranscriptions(store, doc_id) ==
    LET keep == {r \in BagToSet(store) : r.document_id # doc_id}
    IN [r \in keep |-> store[r]]

\* collection.add(data) / table.insert(data): one more copy of the record.
AddRecord(store, r) ==
    IF BagIn(r, store)
    THEN [store EXCEPT ![r] = IF @ < MaxCopies THEN @ + 1 ELSE @]
    ELSE store (+) SetToBag({r})

\* update({'status': s}) of the document with this id.
UpdateStatusById(md, doc_id, s) == [md EXCEPT ![doc_id].status = s]

\* update({'status': s}).eq('file_name', f): every document of that name.
UpdateStatusByFileName(md, f, s) ==
    [d \in Docs |-> IF md[d].file_name = f THEN [md[d] EXCEPT !.status = s] ELSE md[d]]

\* get_missing_pages: the pages 1..total_pages without a record of the
\* document, ascending; the empty list when the lookup raised.
ExistingPages(store, document_id) ==
    {r.page : r \in {x \in RecordsOf(store, document_id) : x.page # 0}}

\* A variant that counts from page 0; C4 tells it from the code's.
GetMissingPagesFromZero(store, document_id, total_pages, lookup_ok) ==
    IF lookup_ok
    THEN SortAsc((0..total_pages) \ ExistingPages(store, document_id))
    ELSE <<>>

\* A variant whose handler gives every page as missing when the lookup fails;
\* C30 tells it from the code's.
GetMissingPagesAllOnFailure(store, document_id, total_pages, lookup_ok) ==
    IF lookup_ok
    THEN SortAsc((1..total_pages) \ ExistingPages(store, document_id))
    ELSE SortAsc(1..total_pages)

GetMissingPages(store, document_id, total_pages, lookup_ok) ==
    IF lookup_ok
    THEN SortAsc((1..total_pages) \ ExistingPages(store, document_id))
    ELSE <<>>

\* ------------------------------------------------- transcription client

\* Variants with the treatment of an empty text exchanged between the two
\* scripts; C6 and C7 tell them from the code's.
TranscribeFirstPassPlaceholder(response) ==
    CASE response = "text" -> "text"
      [] response = "empty_text" -> "NO_CONTENT"
      [] OTHER -> ""

TranscribeRecoveryEmpty(response) ==
    CASE response = "text" -> "text"
      [] response \in {"no_candidates", "empty_text"} -> ""
      [] OTHER -> "NO_CONTENT"

\* transcribe_pdf of the first-pass scripts: the text, or "" when there are
\* no candidates, the text is empty or the call raised.
TranscribeFirstPass(response) ==
    IF response = "text" THEN "text" ELSE ""

\* transcribe_pdf of transcribe_error_page6.py: "" only when there are no
\* candidates; the placeholder when the text is empty or the call raised.
TranscribeRecovery(response) ==
    CASE response = "text" -> "text"
      [] response = "no_candidates" -> ""
      [] OTHER -> "NO_CONTENT"

TranscribePdf(kind, response) ==
    IF kind = "recovery" THEN TranscribeRecovery(response)
    ELSE TranscribeFirstPass(response)


\* ------------------------------------------------------ program constants

\* batch_size (100 in the scripts) and max_workers (10 in the scripts),
\* scaled to the model's page counts: a batch holds more groups than the
\* pool has workers.
BatchSize == 3

MaxWorkers == 2

\* ------------------------------------------------- invocation helpers

Min(a, b) == IF a < b THEN a ELSE b

FirstPass(kind) == kind \in {"onepage", "twopage", "document"}

\* The scripts that dispatch through process_page_batch's thread pool.
Pooled(kind) == kind \in {"onepage", "recovery"}

CurrentDoc(me) == Head(me.docs)

FileOf(d) == metadata[d].file_name

\* The indices of split_pdfs[i:i + batch_size] for the batch starting at b.
BatchIndices(me) == me.batch .. Min(me.batch + BatchSize - 1, Len(me.split_pdfs))

\* A variant that submits every remaining group at once instead of one
\* batch; C20 tells it from the code's.
SubmitBatchAll(futures, b) ==
    [k \in 1..Len(futures) |->
        IF k >= b THEN [futures[k] EXCEPT !.state = "queued"] ELSE futures[k]]

\* executor.submit for every group of the batch starting at index b.
SubmitBatch(futures, b) ==
    [k \in 1..Len(futures) |->
        IF k >= b /\ k <= b + BatchSize - 1
        THEN [futures[k] EXCEPT !.state = "queued"] ELSE futures[k]]

\* Where a script goes after its deletion sweep: the one-page script purges
\* the records of the unprocessed documents, the others select at once.
AfterSweep(kind) == IF kind = "onepage" THEN "query_unprocessed" ELSE "select"

\* The first step on a selected document.
FirstStep(kind) == IF kind = "recovery" THEN "check" ELSE "fetch"

\* The loop over the selected documents moves on; after the last one the
\* script returns.
NextDoc(me) ==
    IF Len(me.docs) <= 1 THEN Finished(me, "returned")
    ELSE [me EXCEPT !.docs = Tail(me.docs), !.pc = FirstStep(me.kind),
                    !.missing_pages = <<>>, !.split_pdfs = <<>>,
                    !.futures = <<>>, !.batch = 0]

\* The same, with the report of how the pass over the current document ended.
NextDocWith(me, outcome) ==
    NextDoc([me EXCEPT !.report[CurrentDoc(me)] =
                          IF me.kind = "recovery" THEN outcome ELSE @])

\* How a finished dispatch of the error-recovery script went, in terms of
\* what the remote services did: a call was blocked (no candidates); or none
\* was, but an insert failed or a missing page is not in the PDF; or neither.
PassOutcome(me) ==
    IF \E k \in 1..Len(me.futures) : me.futures[k].response = "no_candidates"
    THEN "blocked"
    ELSE IF \/ \E k \in 1..Len(me.futures) : me.futures[k].saved = "failed"
            \/ Len(me.split_pdfs) < Len(me.missing_pages)
    THEN "dropped"
    ELSE "clean"

\* The page a record of this group is saved under.
PageOf(kind, group) == IF kind = "document" THEN group.page_start ELSE group.page

\* The record save_to_firestore / save_to_supabase inserts. The script
\* transcribe_document.py inserts no document_id.
NewRecord(kind, d, group, transcription) ==
    [document_id |-> IF kind = "document" THEN NoDoc ELSE d,
     file_name |-> FileOf(d),
     page |-> PageOf(kind, group),
     transcription |-> transcription]

\* A variant of the selection that does not filter on the selector value; C22
\* tells it from the code's.
SelectedAnyRandom(kind, random) ==
    IF kind = "recovery" THEN DocsWhere({d \in Docs : HasStatus(d, "processed")})
    ELSE DocsWhere({d \in Docs : HasStatus(d, "unprocessed")})

\* The query that selects a run's documents.
Selected(kind, random) ==
    CASE kind = "onepage" ->
            DocsWhere({d \in Docs : HasStatus(d, "unprocessed") /\ metadata[d].random = random})
      [] kind = "recovery" ->
            DocsWhere({d \in Docs : HasStatus(d, "processed") /\ metadata[d].random = random})
      [] OTHER -> DocsWhere({d \in Docs : HasStatus(d, "unprocessed")})

\* The splitter a script applies to the downloaded PDF of L pages.
SplitFor(kind, L, missing_pages) ==
    CASE kind = "onepage" -> SplitOnePage(L)
      [] kind = "recovery" -> ExtractSpecificPages(L, missing_pages)
      [] kind = "twopage" -> SplitTwoPage(L)
      [] OTHER -> SplitTwoPageRange(L)

\* A variant in which the error-recovery script writes the status too; C9
\* tells it from the code's.
SettleStatusAlways(kind, md, d) ==
    IF kind \in {"onepage", "recovery"} THEN UpdateStatusById(md, d, "processed")
    ELSE UpdateStatusByFileName(md, md[d].file_name, "processed")

\* The status write that settles a document: by id in the one-page script,
\* by file name in the Supabase scripts, none in the error-recovery script.
SettleStatus(kind, md, d) ==
    CASE kind = "onepage" -> UpdateStatusById(md, d, "processed")
      [] kind = "recovery" -> md
      [] OTHER -> UpdateStatusByFileName(md, md[d].file_name, "processed")


\* ------------------------------------------------------------ actions

StoreUnchanged == UNCHANGED <<backend, metadata, storage, transcriptions, call>>

\* A script is started: python3 <script>.py. Executions are numbered in the
\* order they start.
Start(i, kind) ==
    /\ inv[i].kind = "idle"
    /\ \A j \in Invs : j < i => inv[j].kind # "idle"
    /\ kind \in KindsOf(backend)
    /\ inv' = [inv EXCEPT ![i] =
                 [Idle EXCEPT !.kind = kind,
                              !.pc = IF FirstPass(kind) THEN "query_deleted" ELSE "select"]]
    /\ StoreUnchanged

\* The copy of a Firestore script that an operator runs for another selector
\* value: the same script, its selection filtering on random instead.
StartShard(i, kind, random) ==
    /\ inv[i].kind = "idle"
    /\ \A j \in Invs : j < i => inv[j].kind # "idle"
    /\ kind \in KindsOf(backend)
    /\ Pooled(kind)
    /\ inv' = [inv EXCEPT ![i] =
                 [Idle EXCEPT !.kind = kind,
                              !.random = random,
                              !.pc = IF FirstPass(kind) THEN "query_deleted" ELSE "select"]]
    /\ StoreUnchanged

\* process_documents: the query for the documents marked deleted.
QueryDeleted(i) ==
    LET me == inv[i]
        found == DocsWhere({d \in Docs : HasStatus(d, "deleted")})
    IN /\ me.pc = "query_deleted"
       /\ inv' = [inv EXCEPT ![i] =
                    [me EXCEPT !.deleted_docs = found,
                               !.pc = IF found = <<>> THEN AfterSweep(me.kind)
                                      ELSE "delete_transcriptions"]]
       /\ StoreUnchanged

\* The sweep deletes the records whose document_id is the deleted document's.
SweepDelete(i) ==
    LET me == inv[i]
    IN /\ me.pc = "delete_transcriptions"
       /\ transcriptions' = DeleteTranscriptions(transcriptions, Head(me.deleted_docs))
       /\ inv' = [inv EXCEPT ![i] = [me EXCEPT !.pc = "update_deleted"]]
       /\ UNCHANGED <<backend, metadata, storage, call>>

\* The sweep writes deleted_applied and moves to the next deleted document.
SweepUpdate(i) ==
    LET me == inv[i]
        rest == Tail(me.deleted_docs)
    IN /\ me.pc = "update_deleted"
       /\ metadata' = UpdateStatusById(metadata, Head(me.deleted_docs), "deleted_applied")
       /\ inv' = [inv EXCEPT ![i] =
                    [me EXCEPT !.deleted_docs = rest,
                               !.pc = IF rest = <<>> THEN AfterSweep(me.kind)
                                      ELSE "delete_transcriptions"]]
       /\ UNCHANGED <<backend, storage, transcriptions, call>>

\* The one-page script: the ids of every unprocessed document.
QueryUnprocessed(i) ==
    LET me == inv[i]
        found == DocsWhere({d \in Docs : HasStatus(d, "unprocessed")})
    IN /\ me.pc = "query_unprocessed"
       /\ inv' = [inv EXCEPT ![i] =
                    [me EXCEPT !.unprocessed_ids = found,
                               !.pc = IF found = <<>> THEN "select" ELSE "purge"]]
       /\ StoreUnchanged

\* The one-page script deletes the records of one unprocessed document.
PurgeStray(i) ==
    LET me == inv[i]
        rest == Tail(me.unprocessed_ids)
    IN /\ me.pc = "purge"
       /\ transcriptions' = DeleteTranscriptions(transcriptions, Head(me.unprocessed_ids))
       /\ inv' = [inv EXCEPT ![i] =
                    [me EXCEPT !.unprocessed_ids = rest,
                               !.pc = IF rest = <<>> THEN "select" ELSE "purge"]]
       /\ UNCHANGED <<backend, metadata, storage, call>>

\* The query for the run's documents; with none the script returns.
Select(i) ==
    LET me == inv[i]
        found == Selected(me.kind, me.random)
    IN /\ me.pc = "select"
       /\ inv' = [inv EXCEPT ![i] =
                    IF found = <<>> THEN Finished(me, "returned")
                    ELSE [me EXCEPT !.docs = found, !.pc = FirstStep(me.kind)]]
       /\ StoreUnchanged

\* A remote call outside the per-document try raises: the outermost handler
\* logs and the script returns.
RunAborts(i) ==
    /\ inv[i].pc \in {"query_deleted", "delete_transcriptions", "update_deleted",
                      "query_unprocessed", "purge", "select"}
    /\ inv' = [inv EXCEPT ![i] = Finished(inv[i], "returned")]
    /\ StoreUnchanged

\* process_error_pages: a document without total_pages is skipped, one with
\* no missing page too; otherwise the missing pages are kept for the split.
CheckMissing(i, lookup_ok) ==
    LET me == inv[i]
        d == CurrentDoc(me)
        total_pages == metadata[d].total_pages
        missing == GetMissingPages(transcriptions, d, total_pages, lookup_ok)
    IN /\ me.pc = "check"
       /\ total_pages = 0 => lookup_ok
       /\ inv' = [inv EXCEPT ![i] =
                    IF total_pages = 0 THEN NextDocWith(me, "no_total_pages")
                    ELSE IF missing = <<>>
                    THEN NextDocWith(me, IF lookup_ok THEN "nothing_missing"
                                         ELSE "lookup_failed")
                    ELSE [me EXCEPT !.missing_pages = missing, !.pc = "fetch"]]
       /\ StoreUnchanged

\* A variant that writes the status as soon as the document is split, before
\* any batch; C12 tells it from the code's.
FetchWritesStatus(i) ==
    LET me == inv[i]
        d == CurrentDoc(me)
        split == SplitFor(me.kind, storage[FileOf(d)], me.missing_pages)
        n == Len(split.groups)
    IN /\ me.pc = "fetch"
       /\ split.ok
       /\ inv' = [inv EXCEPT ![i] =
                    [me EXCEPT
                       !.split_pdfs = split.groups,
                       !.futures = IF Pooled(me.kind)
                                   THEN SubmitBatch([k \in 1..n |-> NoFuture], 1)
                                   ELSE [k \in 1..n |-> NoFuture],
                       !.batch = IF n = 0 THEN 0 ELSE 1,
                       !.pc = IF n = 0 THEN "settle"
                              ELSE IF Pooled(me.kind) THEN "dispatch" ELSE "transcribe"]]
       /\ metadata' = UpdateStatusById(metadata, d, "processed")
       /\ UNCHANGED <<backend, storage, transcriptions, call>>

\* The download and the split of the current document, and, for the pooled
\* scripts, the submission of the first batch.
Fetch(i) ==
    LET me == inv[i]
        d == CurrentDoc(me)
        split == SplitFor(me.kind, storage[FileOf(d)], me.missing_pages)
        n == Len(split.groups)
    IN /\ me.pc = "fetch"
       /\ split.ok
       /\ inv' = [inv EXCEPT ![i] =
                    [me EXCEPT
                       !.split_pdfs = split.groups,
                       !.futures = IF Pooled(me.kind)
                                   THEN SubmitBatch([k \in 1..n |-> NoFuture], 1)
                                   ELSE [k \in 1..n |-> NoFuture],
                       !.batch = IF n = 0 THEN 0 ELSE 1,
                       !.pc = IF n = 0 THEN "settle"
                              ELSE IF Pooled(me.kind) THEN "dispatch" ELSE "transcribe"]]
       /\ StoreUnchanged

\* A variant in which the failure of a document ends the run; C13 tells it
\* from the code's.
DocFailsAborts(i) ==
    LET me == inv[i]
    IN /\ \/ me.pc = "fetch"
          \/ me.pc = "settle" /\ FirstPass(me.kind)
       /\ inv' = [inv EXCEPT ![i] = Finished(me, "returned")]
       /\ StoreUnchanged

\* The download or the split raises, or the status write of a first-pass
\* script does: the per-document handler logs and the loop moves on.
DocFails(i) ==
    LET me == inv[i]
    IN /\ \/ me.pc = "fetch"
          \/ me.pc = "settle" /\ FirstPass(me.kind)
       /\ inv' = [inv EXCEPT ![i] = NextDocWith(me, "download_failed")]
       /\ StoreUnchanged


\* ---- process_page_batch: the thread pool of the Firestore scripts

Running(me) == {k \in BatchIndices(me) : me.futures[k].state = "running"}

Queued(me) == {k \in BatchIndices(me) : me.futures[k].state = "queued"}

Unhandled(me) == {k \in BatchIndices(me) : me.futures[k].state # "handled"}

Lowest(S) == CHOOSE k \in S : \A j \in S : k <= j

\* A variant of the pool without a limit on its threads; C11 tells it from
\* the code's.
WorkerStartUnbounded(i) ==
    LET me == inv[i]
    IN /\ me.pc = "dispatch"
       /\ Queued(me) # {}
       /\ inv' = [inv EXCEPT ![i].futures[Lowest(Queued(me))].state = "running"]
       /\ StoreUnchanged

\* A free worker of the pool takes the oldest queued task and issues its
\* transcription call.
WorkerStart(i) ==
    LET me == inv[i]
    IN /\ me.pc = "dispatch"
       /\ Queued(me) # {}
       /\ Cardinality(Running(me)) < MaxWorkers
       /\ inv' = [inv EXCEPT ![i].futures[Lowest(Queued(me))].state = "running"]
       /\ StoreUnchanged

\* A transcription call returns: the remote service answered with text, with
\* an empty text, with no candidates, or the call raised.
WorkerReturn(i, k, response) ==
    LET me == inv[i]
    IN /\ me.pc = "dispatch"
       /\ k \in Running(me)
       /\ inv' = [inv EXCEPT ![i].futures[k] =
                    [state |-> "done", response |-> response, saved |-> "none"]]
       /\ StoreUnchanged

\* A variant that submits a group again when its call gave nothing to save;
\* C31 tells it from the code's.
HandleResultRetries(i, save_ok) ==
    LET me == inv[i]
        d == CurrentDoc(me)
        k == Lowest(Unhandled(me))
        transcription == TranscribePdf(me.kind, me.futures[k].response)
        saved == IF transcription = "" THEN "skipped"
                 ELSE IF save_ok THEN "ok" ELSE "failed"
        last == k = Min(me.batch + BatchSize - 1, Len(me.split_pdfs))
        more == k < Len(me.split_pdfs)
        handled == [me.futures EXCEPT ![k].state = "handled", ![k].saved = saved]
    IN /\ me.pc = "dispatch"
       /\ Unhandled(me) # {}
       /\ me.futures[k].state = "done"
       /\ transcription = "" => save_ok
       /\ transcriptions' =
            IF saved = "ok"
            THEN AddRecord(transcriptions, NewRecord(me.kind, d, me.split_pdfs[k], transcription))
            ELSE transcriptions
       /\ inv' = [inv EXCEPT ![i] =
                    IF saved = "skipped"
                    THEN [me EXCEPT !.futures[k] = [NoFuture EXCEPT !.state = "queued"]]
                    ELSE IF last /\ more
                    THEN [me EXCEPT !.futures = SubmitBatch(handled, k + 1), !.batch = k + 1]
                    ELSE IF last
                    THEN [me EXCEPT !.futures = handled, !.pc = "settle"]
                    ELSE [me EXCEPT !.futures = handled]]
       /\ UNCHANGED <<backend, metadata, storage, call>>

\* A variant in which a failed insert raises out of save_to_firestore, to the
\* handler of the document; C26 tells it from the code's.
HandleResultSaveRaises(i, save_ok) ==
    LET me == inv[i]
        d == CurrentDoc(me)
        k == Lowest(Unhandled(me))
        transcription == TranscribePdf(me.kind, me.futures[k].response)
        saved == IF transcription = "" THEN "skipped"
                 ELSE IF save_ok THEN "ok" ELSE "failed"
        last == k = Min(me.batch + BatchSize - 1, Len(me.split_pdfs))
        more == k < Len(me.split_pdfs)
        handled == [me.futures EXCEPT ![k].state = "handled", ![k].saved = saved]
    IN /\ me.pc = "dispatch"
       /\ Unhandled(me) # {}
       /\ me.futures[k].state = "done"
       /\ transcription = "" => save_ok
       /\ transcriptions' =
            IF saved = "ok"
            THEN AddRecord(transcriptions, NewRecord(me.kind, d, me.split_pdfs[k], transcription))
            ELSE transcriptions
       /\ inv' = [inv EXCEPT ![i] =
                    IF saved = "failed"
                    THEN NextDocWith(me, "download_failed")
                    ELSE IF last /\ more
                    THEN [me EXCEPT !.futures = SubmitBatch(handled, k + 1), !.batch = k + 1]
                    ELSE IF last
                    THEN [me EXCEPT !.futures = handled, !.pc = "settle"]
                    ELSE [me EXCEPT !.futures = handled]]
       /\ UNCHANGED <<backend, metadata, storage, call>>

\* The loop over the futures, in submission order: future.result(), then
\* save_to_firestore when the transcription is not empty. After the last
\* future of the batch the next batch is submitted, or the dispatch ends.
HandleResult(i, save_ok) ==
    LET me == inv[i]
        d == CurrentDoc(me)
        k == Lowest(Unhandled(me))
        transcription == TranscribePdf(me.kind, me.futures[k].response)
        saved == IF transcription = "" THEN "skipped"
                 ELSE IF save_ok THEN "ok" ELSE "failed"
        last == k = Min(me.batch + BatchSize - 1, Len(me.split_pdfs))
        more == k < Len(me.split_pdfs)
        handled == [me.futures EXCEPT ![k].state = "handled", ![k].saved = saved]
    IN /\ me.pc = "dispatch"
       /\ Unhandled(me) # {}
       /\ me.futures[k].state = "done"
       /\ transcription = "" => save_ok
       /\ transcriptions' =
            IF saved = "ok"
            THEN AddRecord(transcriptions, NewRecord(me.kind, d, me.split_pdfs[k], transcription))
            ELSE transcriptions
       /\ inv' = [inv EXCEPT ![i] =
                    IF last /\ more
                    THEN [me EXCEPT !.futures = SubmitBatch(handled, k + 1), !.batch = k + 1]
                    ELSE IF last
                    THEN [me EXCEPT !.futures = handled, !.pc = "settle"]
                    ELSE [me EXCEPT !.futures = handled]]
       /\ UNCHANGED <<backend, metadata, storage, call>>

\* ---- the Supabase scripts: one group after the other

\* transcribe_pdf on the current group (the call is issued and returns).
Transcribe(i, response) ==
    LET me == inv[i]
    IN /\ me.pc = "transcribe"
       /\ inv' = [inv EXCEPT ![i] =
                    [me EXCEPT !.futures[me.batch] =
                                  [state |-> "done", response |-> response, saved |-> "none"],
                               !.pc = "save"]]
       /\ StoreUnchanged

\* save_to_supabase on the current group, whatever transcribe_pdf returned;
\* a failed insert is logged and the loop goes on.
Save(i, save_ok) ==
    LET me == inv[i]
        d == CurrentDoc(me)
        k == me.batch
        transcription == TranscribePdf(me.kind, me.futures[k].response)
        handled == [me.futures EXCEPT ![k].state = "handled",
                                      ![k].saved = IF save_ok THEN "ok" ELSE "failed"]
    IN /\ me.pc = "save"
       /\ transcriptions' =
            IF save_ok
            THEN AddRecord(transcriptions, NewRecord(me.kind, d, me.split_pdfs[k], transcription))
            ELSE transcriptions
       /\ inv' = [inv EXCEPT ![i] =
                    IF k < Len(me.split_pdfs)
                    THEN [me EXCEPT !.futures = handled, !.batch = k + 1, !.pc = "transcribe"]
                    ELSE [me EXCEPT !.futures = handled, !.pc = "settle"]]
       /\ UNCHANGED <<backend, metadata, storage, call>>

\* ---- the end of a document

\* Every batch is done: the first-pass scripts write status processed, the
\* error-recovery script writes nothing.
Settle(i) ==
    LET me == inv[i]
    IN /\ me.pc = "settle"
       /\ metadata' = SettleStatus(me.kind, metadata, CurrentDoc(me))
       /\ inv' = [inv EXCEPT ![i] = [me EXCEPT !.pc = "doc_done"]]
       /\ UNCHANGED <<backend, storage, transcriptions, call>>

\* The document is reported done and the loop moves on.
NextDocument(i) ==
    /\ inv[i].pc = "doc_done"
    /\ inv' = [inv EXCEPT ![i] = NextDocWith(inv[i], PassOutcome(inv[i]))]
    /\ StoreUnchanged

\* ---- the environment

\* The process of a running script is killed.
Crash(i) ==
    /\ inv[i].kind \notin {"idle", "finished"}
    /\ inv' = [inv EXCEPT ![i] = Finished(inv[i], "killed")]
    /\ StoreUnchanged

\* The application marks a document deleted.
MarkDeleted(d) ==
    /\ metadata[d].status \in {"unprocessed", "processed"}
    /\ metadata' = UpdateStatusById(metadata, d, "deleted")
    /\ UNCHANGED <<backend, storage, transcriptions, inv, call>>


\* ---- number_huriwake.py: the assignment of the selector values

NoAssignment == [fn |-> "assign_random_numbers", docs |-> <<>>]

\* assign_random_numbers starts: the query for the unprocessed documents.
AssignQuery ==
    /\ call \in {NoCall, NoAssignment}
    /\ \E d \in Docs : HasStatus(d, "unprocessed")
    /\ call' = [fn |-> "assign_random_numbers",
                docs |-> DocsWhere({d \in Docs : HasStatus(d, "unprocessed")})]
    /\ UNCHANGED <<backend, metadata, storage, transcriptions, inv>>

\* The loop over the queried documents: random.randint and the update of
\* the document's random field, whatever the field holds.
AssignUpdate(random_number) ==
    /\ call.fn = "assign_random_numbers"
    /\ call.docs # <<>>
    /\ metadata' = [metadata EXCEPT ![Head(call.docs)].random = random_number]
    /\ call' = [call EXCEPT !.docs = Tail(call.docs)]
    /\ UNCHANGED <<backend, storage, transcriptions, inv>>

\* An update raises: the handler logs and the script returns.
AssignFails ==
    /\ call.fn = "assign_random_numbers"
    /\ call.docs # <<>>
    /\ call' = NoAssignment
    /\ UNCHANGED <<backend, metadata, storage, transcriptions, inv>>


\* ---- transcribe_workbook.py: process_workbook

\* The document the workbook's query returns first, if any.
WorkbookDocs(target_file_name) ==
    DocsWhere({d \in Docs : metadata[d].file_name = target_file_name})

\* Where the loop over the problems goes after problem k.
AfterProblem(wb) ==
    IF wb.k < Len(wb.problems)
    THEN [wb EXCEPT !.k = wb.k + 1, !.pc = "split",
                    !.chunk = <<>>, !.question = "", !.analysis = "", !.structured = ""]
    ELSE [wb EXCEPT !.pc = "done"]

\* process_workbook starts: the problems file is read and the document is
\* looked up by file name; without a document the script returns.
WorkbookStart(problems, target_file_name) ==
    LET found == WorkbookDocs(target_file_name)
    IN /\ call = NoCall
       /\ call' = [fn |-> "process_workbook",
                   pc |-> IF found = <<>> THEN "not_found" ELSE "download",
                   problems |-> problems,
                   file_name |-> target_file_name,
                   document_id |-> IF found = <<>> THEN NoDoc ELSE Head(found),
                   L |-> 0, k |-> 0, chunk |-> <<>>,
                   question |-> "", analysis |-> "", structured |-> "",
                   inserts |-> <<>>]
       /\ UNCHANGED <<backend, metadata, storage, transcriptions, inv>>

\* The download and PdfReader: when one raises, the handler of the file logs
\* and the script ends; otherwise the loop over the problems starts.
WorkbookDownload(ok) ==
    /\ call.fn = "process_workbook"
    /\ call.pc = "download"
    /\ call' = IF ~ok THEN [call EXCEPT !.pc = "failed"]
               ELSE IF call.problems = <<>> THEN [call EXCEPT !.pc = "done"]
               ELSE [call EXCEPT !.L = storage[call.file_name], !.k = 1, !.pc = "split"]
    /\ UNCHANGED <<backend, metadata, storage, transcriptions, inv>>

\* A variant in which a split that raises ends the loop over the problems;
\* C29 tells it from the code's.
WorkbookSplitAborts(ok) ==
    /\ call.fn = "process_workbook"
    /\ call.pc = "split"
    /\ call' = IF ok
               THEN [call EXCEPT !.chunk = ProblemChunk(call.L, call.problems[call.k]).data,
                                 !.pc = "transcribe"]
               ELSE [call EXCEPT !.pc = "failed"]
    /\ UNCHANGED <<backend, metadata, storage, transcriptions, inv>>

\* The per-problem split; when it raises, the handler of the problem saves an
\* empty record.
WorkbookSplit(ok) ==
    /\ call.fn = "process_workbook"
    /\ call.pc = "split"
    /\ call' = IF ok
               THEN [call EXCEPT !.chunk = ProblemChunk(call.L, call.problems[call.k]).data,
                                 !.pc = "transcribe"]
               ELSE [call EXCEPT !.pc = "save_empty"]
    /\ UNCHANGED <<backend, metadata, storage, transcriptions, inv>>

\* transcribe_pdf: question and answer, or two empty strings when the call
\* fails or returns nothing.
WorkbookTranscribe(ok) ==
    /\ call.fn = "process_workbook"
    /\ call.pc = "transcribe"
    /\ call' = [call EXCEPT !.question = IF ok THEN "text" ELSE "", !.pc = "analyze"]
    /\ UNCHANGED <<backend, metadata, storage, transcriptions, inv>>

\* analyze_problem: the analysis, or the empty string.
WorkbookAnalyze(ok) ==
    /\ call.fn = "process_workbook"
    /\ call.pc = "analyze"
    /\ call' = [call EXCEPT !.analysis = IF ok THEN "text" ELSE "", !.pc = "structure"]
    /\ UNCHANGED <<backend, metadata, storage, transcriptions, inv>>

\* structure_analysis: the structured analysis, or the empty dictionary.
WorkbookStructure(ok) ==
    /\ call.fn = "process_workbook"
    /\ call.pc = "structure"
    /\ call' = [call EXCEPT !.structured = IF ok THEN "text" ELSE "", !.pc = "save"]
    /\ UNCHANGED <<backend, metadata, storage, transcriptions, inv>>

\* save_to_supabase for the current problem, with the values of the stages
\* or, from the handler of the problem, with empty values; a failed insert
\* is logged. The loop then moves to the next problem.
WorkbookSave(save_ok) ==
    LET empty == call.pc = "save_empty"
        record == [problem_number |-> call.problems[call.k].problem_number,
                   document_id |-> call.document_id,
                   file_name |-> call.file_name,
                   question |-> IF empty THEN "" ELSE call.question,
                   analysis |-> IF empty THEN "" ELSE call.analysis,
                   structured |-> IF empty THEN "" ELSE call.structured,
                   stored |-> save_ok]
    IN /\ call.fn = "process_workbook"
       /\ call.pc \in {"save", "save_empty"}
       /\ call' = AfterProblem([call EXCEPT !.inserts = Append(call.inserts, record)])
       /\ UNCHANGED <<backend, metadata, storage, transcriptions, inv>>

\* ---- calls of the pure operators

CallSplitOnePage(L) ==
    /\ call = NoCall
    /\ call' = [fn |-> "split_onepage", L |-> L, result |-> SplitOnePage(L)]
    /\ UNCHANGED <<backend, metadata, storage, transcriptions, inv>>

CallSplitTwoPage(L) ==
    /\ call = NoCall
    /\ call' = [fn |-> "split_twopage", L |-> L, result |-> SplitTwoPage(L)]
    /\ UNCHANGED <<backend, metadata, storage, transcriptions, inv>>

CallSplitTwoPageRange(L) ==
    /\ call = NoCall
    /\ call' = [fn |-> "split_twopage_range", L |-> L, result |-> SplitTwoPageRange(L)]
    /\ UNCHANGED <<backend, metadata, storage, transcriptions, inv>>

CallExtractSpecificPages(L, pages) ==
    /\ call = NoCall
    /\ call' = [fn |-> "extract", L |-> L, pages |-> pages,
                result |-> ExtractSpecificPages(L, pages)]
    /\ UNCHANGED <<backend, metadata, storage, transcriptions, inv>>

\* extract_specific_pages_from_pdf called on any list of page numbers, in
\* any order and with repetitions.
CallExtractRequested(L, pages) ==
    /\ call = NoCall
    /\ call' = [fn |-> "extract_requested", L |-> L, pages |-> pages,
                result |-> ExtractSpecificPages(L, pages)]
    /\ UNCHANGED <<backend, metadata, storage, transcriptions, inv>>

CallSplitProblems(L, problems) ==
    /\ call = NoCall
    /\ call' = [fn |-> "split_problems", L |-> L, problems |-> problems,
                result |-> SplitProblems(L, problems)]
    /\ UNCHANGED <<backend, metadata, storage, transcriptions, inv>>

CallGetMissingPages(store, document_id, total_pages, lookup_ok) ==
    /\ call = NoCall
    /\ call' = [fn |-> "get_missing_pages", store |-> store, document_id |-> document_id,
                total_pages |-> total_pages, lookup_ok |-> lookup_ok,
                result |-> GetMissingPages(store, document_id, total_pages, lookup_ok)]
    /\ UNCHANGED <<backend, metadata, storage, transcriptions, inv>>

CallTranscribePdf(kind, response) ==
    /\ call = NoCall
    /\ call' = [fn |-> "transcribe_pdf", kind |-> kind, response |-> response,
                result |-> TranscribePdf(kind, response)]
    /\ UNCHANGED <<backend, metadata, storage, transcriptions, inv>>

\* ------------------------------------------------------ specifications

\* The metadata of the two documents: d1 carries the selector the scripts
\* filter on.
MetadataOf(s1, s2, f2, r2, t1, t2) ==
    [d \in Docs |->
        [status |-> IF d = "d1" THEN s1 ELSE s2,
         file_name |-> IF d = "d1" THEN "f1" ELSE f2,
         random |-> IF d = "d1" THEN TargetRandom ELSE r2,
         total_pages |-> IF d = "d1" THEN t1 ELSE t2]]

\* Object storage: f1 is a PDF of n pages, f2 a PDF of one page.
StorageOf(n) == [f \in Files |-> IF f = "f1" THEN n ELSE 1]

\* A record an earlier run of a Firestore script left.
EarlierRecord(d, p) ==
    [document_id |-> d, file_name |-> IF d = "d1" THEN "f1" ELSE "f2",
     page |-> p, transcription |-> "text"]

NotStarted == [i \in Invs |-> Idle]

\* No other execution is running.
Alone(i) == \A j \in Invs \ {i} : inv[j].kind \in {"idle", "finished"}

\* ---- the pure operators on bounded inputs

\* The lists get_missing_pages can return: ascending, without repetition.
PageLists ==
    {ps \in UNION {[1..n -> 1..(MaxPages + 1)] : n \in 0..MaxReq} :
        \A k \in 1..(Len(ps) - 1) : ps[k] < ps[k + 1]}

\* The lists of 1-indexed page numbers a caller can request, in any order.
RequestLists == UNION {[1..n -> 1..(MaxPages + 1)] : n \in 0..MaxReq}

\* The page ranges the caller's problem list can give a problem, and the lists of
\* problems, numbered in order.
PageRanges ==
    {r \in (1..(MaxPages + 1)) \X (1..(MaxPages + 1)) : r[1] <= r[2]}

ProblemLists ==
    UNION {{[k \in 1..n |-> [problem_number |-> k,
                             start_page |-> rs[k][1],
                             end_page |-> rs[k][2]]] : rs \in [1..n -> PageRanges]} :
              n \in 0..MaxReq}

\* The stores get_missing_pages is called on: records of both documents,
\* one of them without a page number (page 0), some pages recorded twice.
Stores ==
    {SetToBag({EarlierRecord("d1", p) : p \in P1} \cup {EarlierRecord("d2", p) : p \in P2})
        (+) SetToBag({EarlierRecord("d1", p) : p \in twice \cap P1}) :
            P1 \in SUBSET (0..MaxPages), P2 \in SUBSET (1..1), twice \in SUBSET (1..MaxPages)}

InitPure ==
    /\ backend = "firestore"
    /\ storage = StorageOf(1)
    /\ metadata = MetadataOf("processed", "processed", "f2", TargetRandom, 1, 1)
    /\ transcriptions = EmptyBag
    /\ inv = NotStarted
    /\ call = NoCall

NextPure ==
    \/ \E L \in 0..MaxPages : CallSplitOnePage(L)
    \/ \E L \in 0..MaxPages : CallSplitTwoPage(L)
    \/ \E L \in 0..MaxPages : CallSplitTwoPageRange(L)
    \/ \E L \in 0..MaxPages, pages \in PageLists : CallExtractSpecificPages(L, pages)
    \/ \E L \in 0..MaxPages, pages \in RequestLists : CallExtractRequested(L, pages)
    \/ \E L \in 0..MaxPages, problems \in ProblemLists : CallSplitProblems(L, problems)
    \/ \E store \in Stores, d \in Docs, N \in 1..(MaxPages + 1), ok \in BOOLEAN :
          CallGetMissingPages(store, d, N, ok)
    \/ \E kind \in Kinds, response \in Responses : CallTranscribePdf(kind, response)

SpecPure == InitPure /\ [][NextPure]_vars

\* ---- the one-page first pass, one execution after the other

InitFirstPass ==
    /\ backend = "firestore"
    /\ \E n \in 0..MaxPages : storage = StorageOf(n)
    /\ \E r2 \in RandomValues :
          metadata = MetadataOf("unprocessed", "unprocessed", "f2", r2, 0, 0)
    /\ transcriptions = EmptyBag
    /\ inv = NotStarted
    /\ call = NoCall

NextFirstPass ==
    \/ \E i \in Invs : Alone(i) /\ Start(i, "onepage")
    \/ \E i \in Invs : QueryDeleted(i)
    \/ \E i \in Invs : SweepDelete(i)
    \/ \E i \in Invs : SweepUpdate(i)
    \/ \E i \in Invs : QueryUnprocessed(i)
    \/ \E i \in Invs : PurgeStray(i)
    \/ \E i \in Invs : Select(i)
    \/ \E i \in Invs : RunAborts(i)
    \/ \E i \in Invs : Fetch(i)
    \/ \E i \in Invs : DocFails(i)
    \/ \E i \in Invs : WorkerStart(i)
    \/ \E i \in Invs, k \in 1..MaxPages, response \in Responses : WorkerReturn(i, k, response)
    \/ \E i \in Invs, save_ok \in BOOLEAN : HandleResult(i, save_ok)
    \/ \E i \in Invs : Settle(i)
    \/ \E i \in Invs : NextDocument(i)
    \/ \E i \in Invs : Crash(i)
    \/ \E d \in Docs : MarkDeleted(d)

SpecFirstPass == InitFirstPass /\ [][NextFirstPass]_vars

\* ---- the error recovery, one execution after the other, on a store that
\* ---- earlier runs left with any set of recorded pages of d1's PDF and
\* ---- with the one page of d2's

InitRecovery ==
    /\ backend = "firestore"
    /\ \E n \in 1..MaxPages : storage = StorageOf(n)
    /\ \E r2 \in RandomValues, t1 \in 0..MaxPages :
          metadata = MetadataOf("processed", "processed", "f2", r2, t1, 1)
    /\ \E P1 \in SUBSET (1..storage["f1"]) :
          transcriptions =
             SetToBag({EarlierRecord("d1", p) : p \in P1} \cup {EarlierRecord("d2", 1)})
    /\ inv = NotStarted
    /\ call = NoCall

NextRecovery ==
    \/ \E i \in Invs : Alone(i) /\ Start(i, "recovery")
    \/ \E i \in Invs : Select(i)
    \/ \E i \in Invs : RunAborts(i)
    \/ \E i \in Invs, lookup_ok \in BOOLEAN : CheckMissing(i, lookup_ok)
    \/ \E i \in Invs : Fetch(i)
    \/ \E i \in Invs : DocFails(i)
    \/ \E i \in Invs : WorkerStart(i)
    \/ \E i \in Invs, k \in 1..MaxPages, response \in Responses : WorkerReturn(i, k, response)
    \/ \E i \in Invs, save_ok \in BOOLEAN : HandleResult(i, save_ok)
    \/ \E i \in Invs : Settle(i)
    \/ \E i \in Invs : NextDocument(i)
    \/ \E i \in Invs : Crash(i)
    \/ \E d \in Docs : MarkDeleted(d)

SpecRecovery == InitRecovery /\ [][NextRecovery]_vars

\* ---- the Supabase first pass, one execution after the other

InitSupabase ==
    /\ backend \in {"supabase_id", "supabase_file"}
    /\ \E n \in 0..MaxPages : storage = StorageOf(n)
    /\ \E f2 \in Files :
          metadata = MetadataOf("unprocessed", "unprocessed", f2, TargetRandom, 0, 0)
    /\ transcriptions = EmptyBag
    /\ inv = NotStarted
    /\ call = NoCall

NextSupabase ==
    \/ \E i \in Invs, kind \in {"twopage", "document"} : Alone(i) /\ Start(i, kind)
    \/ \E i \in Invs : QueryDeleted(i)
    \/ \E i \in Invs : SweepDelete(i)
    \/ \E i \in Invs : SweepUpdate(i)
    \/ \E i \in Invs : Select(i)
    \/ \E i \in Invs : RunAborts(i)
    \/ \E i \in Invs : Fetch(i)
    \/ \E i \in Invs : DocFails(i)
    \/ \E i \in Invs, response \in Responses : Transcribe(i, response)
    \/ \E i \in Invs, save_ok \in BOOLEAN : Save(i, save_ok)
    \/ \E i \in Invs : Settle(i)
    \/ \E i \in Invs : NextDocument(i)
    \/ \E i \in Invs : Crash(i)
    \/ \E d \in Docs : MarkDeleted(d)

SpecSupabase == InitSupabase /\ [][NextSupabase]_vars

\* ---- the Firestore scripts, executions overlapping in time

InitOverlap ==
    /\ backend = "firestore"
    /\ \E n \in 1..MaxPages :
          /\ storage = StorageOf(n)
          /\ metadata = MetadataOf("unprocessed", "unprocessed", "f2", 5, n, 1)
    /\ transcriptions = EmptyBag
    /\ inv = NotStarted
    /\ call = NoCall

NextOverlap ==
    \/ \E i \in Invs, kind \in {"onepage", "recovery"} : Start(i, kind)
    \/ \E i \in Invs : QueryDeleted(i)
    \/ \E i \in Invs : SweepDelete(i)
    \/ \E i \in Invs : SweepUpdate(i)
    \/ \E i \in Invs : QueryUnprocessed(i)
    \/ \E i \in Invs : PurgeStray(i)
    \/ \E i \in Invs : Select(i)
    \/ \E i \in Invs : RunAborts(i)
    \/ \E i \in Invs, lookup_ok \in BOOLEAN : CheckMissing(i, lookup_ok)
    \/ \E i \in Invs : Fetch(i)
    \/ \E i \in Invs : DocFails(i)
    \/ \E i \in Invs : WorkerStart(i)
    \/ \E i \in Invs, k \in 1..MaxPages, response \in Responses : WorkerReturn(i, k, response)
    \/ \E i \in Invs, save_ok \in BOOLEAN : HandleResult(i, save_ok)
    \/ \E i \in Invs : Settle(i)
    \/ \E i \in Invs : NextDocument(i)
    \/ \E d \in Docs : MarkDeleted(d)

SpecOverlap == InitOverlap /\ [][NextOverlap]_vars


\* ---- one execution of a Firestore script over a document of up to
\* ---- MaxPoolPages pages: the batches and the thread pool

InitPool ==
    /\ backend = "firestore"
    /\ \E n \in 1..MaxPoolPages, s \in {"unprocessed", "processed"} :
          /\ storage = StorageOf(n)
          /\ metadata = MetadataOf(s, s, "f2", 5, n, 1)
    /\ transcriptions = EmptyBag
    /\ inv = NotStarted
    /\ call = NoCall

NextPool ==
    \/ \E kind \in {"onepage", "recovery"} : Start(1, kind)
    \/ QueryDeleted(1)
    \/ QueryUnprocessed(1)
    \/ PurgeStray(1)
    \/ Select(1)
    \/ RunAborts(1)
    \/ \E lookup_ok \in BOOLEAN : CheckMissing(1, lookup_ok)
    \/ Fetch(1)
    \/ DocFails(1)
    \/ WorkerStart(1)
    \/ \E k \in 1..MaxPoolPages, response \in Responses : WorkerReturn(1, k, response)
    \/ \E save_ok \in BOOLEAN : HandleResult(1, save_ok)
    \/ Settle(1)
    \/ NextDocument(1)

SpecPool == InitPool /\ [][NextPool]_vars

\* ---- the Firestore scripts, one execution after the other, while the
\* ---- selector values are being assigned

InitSelect ==
    /\ backend = "firestore"
    /\ \E n \in 1..MaxPages, s1 \in {"unprocessed", "processed"},
          s2 \in {"unprocessed", "processed", "deleted"}, r2 \in RandomValues :
          /\ storage = StorageOf(n)
          /\ metadata = MetadataOf(s1, s2, "f2", r2, n, 1)
    /\ transcriptions = EmptyBag
    /\ inv = NotStarted
    /\ call = NoCall

NextSelect ==
    \/ \E i \in Invs, kind \in {"onepage", "recovery"} : Alone(i) /\ Start(i, kind)
    \/ \E i \in Invs : QueryDeleted(i)
    \/ \E i \in Invs : SweepDelete(i)
    \/ \E i \in Invs : SweepUpdate(i)
    \/ \E i \in Invs : QueryUnprocessed(i)
    \/ \E i \in Invs : PurgeStray(i)
    \/ \E i \in Invs : Select(i)
    \/ \E i \in Invs, lookup_ok \in BOOLEAN : CheckMissing(i, lookup_ok)
    \/ \E i \in Invs : Fetch(i)
    \/ \E i \in Invs : DocFails(i)
    \/ \E i \in Invs : WorkerStart(i)
    \/ \E i \in Invs, k \in 1..MaxPages, response \in Responses : WorkerReturn(i, k, response)
    \/ \E i \in Invs, save_ok \in BOOLEAN : HandleResult(i, save_ok)
    \/ \E i \in Invs : Settle(i)
    \/ \E i \in Invs : NextDocument(i)
    \/ AssignQuery
    \/ \E random_number \in RandomValues : AssignUpdate(random_number)
    \/ AssignFails

SpecSelect == InitSelect /\ [][NextSelect]_vars

\* ---- the one-page first pass run as two shards, each filtering on its
\* ---- selector value, overlapping in time, while the values are assigned.
\* ---- Execution 1 filters on 6 and execution 2 on the other value; a call
\* ---- returns a text or raises, and every insert succeeds.

OtherRandom == CHOOSE r \in RandomValues : r # TargetRandom

InitShards ==
    /\ backend = "firestore"
    /\ \E n \in 1..MaxPages, r2 \in RandomValues :
          /\ storage = StorageOf(n)
          /\ metadata = MetadataOf("unprocessed", "unprocessed", "f2", r2, n, 1)
    /\ transcriptions = EmptyBag
    /\ inv = NotStarted
    /\ call = NoCall

NextShards ==
    \/ Start(1, "onepage")
    \/ StartShard(2, "onepage", OtherRandom)
    \/ \E i \in Invs : QueryDeleted(i)
    \/ \E i \in Invs : QueryUnprocessed(i)
    \/ \E i \in Invs : PurgeStray(i)
    \/ \E i \in Invs : Select(i)
    \/ \E i \in Invs : Fetch(i)
    \/ \E i \in Invs : DocFails(i)
    \/ \E i \in Invs : WorkerStart(i)
    \/ \E i \in Invs, k \in 1..MaxPages, response \in {"text", "exception"} :
          WorkerReturn(i, k, response)
    \/ \E i \in Invs : HandleResult(i, TRUE)
    \/ \E i \in Invs : Settle(i)
    \/ \E i \in Invs : NextDocument(i)
    \/ AssignQuery
    \/ \E random_number \in RandomValues : AssignUpdate(random_number)
    \/ AssignFails

SpecShards == InitShards /\ [][NextShards]_vars

\* ---- the workbook script on a problems file

\* The problems files: problems numbered in order, each starting on the
\* first page and ending on any page, the one beyond the PDF included.
ProblemFiles ==
    {ps \in ProblemLists : \A k \in 1..Len(ps) : ps[k].start_page = 1}

InitWorkbook ==
    /\ backend = "supabase_id"
    /\ storage = StorageOf(MaxPages)
    /\ metadata = MetadataOf("processed", "processed", "f1", TargetRandom, 0, 0)
    /\ transcriptions = EmptyBag
    /\ inv = NotStarted
    /\ call = NoCall

NextWorkbook ==
    \/ \E problems \in ProblemFiles, target_file_name \in Files :
          WorkbookStart(problems, target_file_name)
    \/ \E ok \in BOOLEAN : WorkbookDownload(ok)
    \/ \E ok \in BOOLEAN : WorkbookSplit(ok)
    \/ \E ok \in BOOLEAN : WorkbookTranscribe(ok)
    \/ \E ok \in BOOLEAN : WorkbookAnalyze(ok)
    \/ \E ok \in BOOLEAN : WorkbookStructure(ok)
    \/ \E save_ok \in BOOLEAN : WorkbookSave(save_ok)

SpecWorkbook == InitWorkbook /\ [][NextWorkbook]_vars

\* ---- one execution of a Firestore script over two selected documents,
\* ---- every remote call returning or raising, the script and its pool
\* ---- running on

InitTerminate ==
    /\ backend = "firestore"
    /\ \E n \in 1..MaxPages, s \in {"unprocessed", "processed"}, r2 \in RandomValues :
          /\ storage = StorageOf(n)
          /\ metadata = MetadataOf(s, s, "f2", r2, n, 1)
    /\ transcriptions = EmptyBag
    /\ inv = NotStarted
    /\ call = NoCall

\* The statements of process_documents / process_error_pages, each ending
\* with the return of its remote call or with the exception it raises.
ScriptStep ==
    \/ QueryDeleted(1)
    \/ QueryUnprocessed(1)
    \/ PurgeStray(1)
    \/ Select(1)
    \/ RunAborts(1)
    \/ \E lookup_ok \in BOOLEAN : CheckMissing(1, lookup_ok)
    \/ Fetch(1)
    \/ DocFails(1)
    \/ \E save_ok \in BOOLEAN : HandleResult(1, save_ok)
    \/ Settle(1)
    \/ NextDocument(1)

\* A worker of the pool takes a task.
PoolStep == WorkerStart(1)

\* A transcription call returns or raises.
CallReturns == \E k \in 1..MaxPages, response \in Responses : WorkerReturn(1, k, response)

NextTerminate ==
    \/ \E kind \in {"onepage", "recovery"} : Start(1, kind)
    \/ ScriptStep
    \/ PoolStep
    \/ CallReturns

SpecTerminate ==
    /\ InitTerminate
    /\ [][NextTerminate]_vars
    /\ WF_vars(ScriptStep)
    /\ WF_vars(PoolStep)
    /\ WF_vars(CallReturns)

\* ------------------------------------------------------------- claims

\* The records that belong to document d: those carrying its id and, for
\* the records inserted without an id, those carrying its file name.
BelongingTo(d) ==
    {r \in BagToSet(transcriptions) :
        \/ r.document_id = d
        \/ r.document_id = NoDoc /\ r.file_name = metadata[d].file_name}

\* The number of records of document d under page p.
RecordCount(store, d, p) ==
    LET rs == {r \in BagToSet(store) : r.document_id = d /\ r.page = p}
        RECURSIVE Sum(_)
        Sum(S) == IF S = {} THEN 0
                  ELSE LET r == CHOOSE x \in S : TRUE IN store[r] + Sum(S \ {r})
    IN Sum(rs)

\* C1: a step never takes a document's status anywhere but along
\* unprocessed -> processed, unprocessed/processed -> deleted,
\* deleted -> deleted_applied.
AllowedTransition(a, b) ==
    \/ a = b
    \/ a = "unprocessed" /\ b \in {"processed", "deleted"}
    \/ a = "processed" /\ b = "deleted"
    \/ a = "deleted" /\ b = "deleted_applied"

C1_StatusMonotone ==
    [][\A d \in Docs : AllowedTransition(metadata[d].status, metadata'[d].status)]_vars

\* C2: no step issues a transcription call for, or inserts a record of, a
\* document whose status is deleted_applied.
IssuesCall(i) ==
    /\ inv[i].pc = "dispatch"
    /\ inv'[i].pc = "dispatch"
    /\ \E k \in 1..Len(inv[i].futures) :
          /\ inv[i].futures[k].state = "queued"
          /\ inv'[i].futures[k].state = "running"

InsertsFor(d) ==
    \E r \in BagToSet(transcriptions') :
        /\ r.document_id = d
        /\ CopiesIn(r, transcriptions') > CopiesIn(r, transcriptions)

C2_NoActivityAfterDeletedApplied ==
    [][\A d \in Docs :
          metadata[d].status = "deleted_applied" =>
             /\ ~InsertsFor(d)
             /\ \A i \in Invs :
                   ~(IssuesCall(i) /\ CurrentDoc(inv[i]) = d)]_vars

\* C3: when the deletion sweep of a first-pass execution has processed a
\* document, no record belonging to it remains and its status is
\* deleted_applied.
SweepProcesses(i, d) ==
    /\ inv[i].pc = "update_deleted"
    /\ Head(inv[i].deleted_docs) = d
    /\ inv'[i].pc \notin {"update_deleted", "returned", "killed"}

C3_SweepComplete ==
    [][\A i \in Invs, d \in Docs :
          SweepProcesses(i, d) =>
             /\ metadata'[d].status = "deleted_applied"
             /\ BelongingTo(d)' = {}]_vars

\* C4: when the lookup succeeds, get_missing_pages returns, in ascending
\* order and without repetition, exactly the pages of 1..total_pages that
\* no record of the document carries.
C4_MissingPagesIsComplement ==
    (call.fn = "get_missing_pages" /\ call.lookup_ok) =>
        LET out == call.result
            recorded == {p \in 1..call.total_pages :
                            \E r \in BagToSet(call.store) :
                               r.document_id = call.document_id /\ r.page = p}
        IN /\ \A k \in 1..(Len(out) - 1) : out[k] < out[k + 1]
           /\ Range(out) = (1..call.total_pages) \ recorded

C4_Witness ==
    /\ call.fn = "get_missing_pages"
    /\ call.lookup_ok
    /\ Len(call.result) >= 2
    /\ Len(call.result) < call.total_pages

\* C5: the store holds at most one record per (document id, page).
C5_OneRecordPerPage ==
    \A d \in Docs, p \in 1..MaxPages : RecordCount(transcriptions, d, p) <= 1


\* C6: the step that ends the first pass of the one-page script over a
\* document leaves it processed, and leaves exactly one record for each page
\* whose call returned a text and whose insert succeeded, and none for any
\* other page: a page blocked by moderation, one whose call returned an
\* empty text or raised, one whose insert failed.
SettlesOnePage(i) ==
    /\ inv[i].kind = "onepage"
    /\ inv[i].pc = "settle"
    /\ inv'[i].pc = "doc_done"

Kept(me, p) ==
    \E k \in 1..Len(me.futures) :
        /\ me.split_pdfs[k].page = p
        /\ me.futures[k].response = "text"
        /\ me.futures[k].saved = "ok"

DispatchesFor(me, d) ==
    /\ me.kind = "recovery"
    /\ me.pc \in {"fetch", "dispatch", "settle", "doc_done"}
    /\ CurrentDoc(me) = d

Recovering(i) ==
    /\ inv[i].kind = "recovery"
    /\ inv[i].pc \in {"dispatch", "settle", "doc_done"}

C9_RecoveryKeepsStatusAndRecords ==
    [][inv' # inv =>
          /\ \A d \in Docs : metadata'[d].status = metadata[d].status
          /\ \A r \in BagToSet(transcriptions) :
                CopiesIn(r, transcriptions') >= CopiesIn(r, transcriptions)]_vars

C9_Witness ==
    \E i \in Invs :
        /\ inv[i].kind = "recovery"
        /\ inv[i].pc = "doc_done"
        /\ \E j, k \in 1..Len(inv[i].futures) :
              /\ inv[i].futures[j].saved = "ok"
              /\ inv[i].futures[k].saved = "failed"

\* C10: the groups a splitter returns hold only pages of the document, and
\* together exactly the requested pages that are in it. With one page per
\* group and with the cover plus two-page groups (which need a first page)
\* the groups are a partition of 1..L, every group after the cover holding
\* two pages but the last, which holds one when the pages after the cover
\* are odd in number. With a page list the groups are disjoint; with problem
\* ranges they are disjoint when the ranges are.
GroupPages(g) == Range(g.data)

PairwiseDisjoint(gs) ==
    \A j, k \in 1..Len(gs) : j # k => GroupPages(gs[j]) \cap GroupPages(gs[k]) = {}

UnionOf(gs) == UNION {GroupPages(gs[k]) : k \in 1..Len(gs)}

WholeDocument == {"split_onepage", "split_twopage", "split_twopage_range"}

Splitters == WholeDocument \cup {"extract", "split_problems"}

ProblemPages(problem) == problem.start_page..problem.end_page

Requested ==
    CASE call.fn \in WholeDocument -> 1..call.L
      [] call.fn = "extract" -> Range(call.pages)
      [] call.fn = "split_problems" ->
            UNION {ProblemPages(call.problems[k]) : k \in 1..Len(call.problems)}

RangesDisjoint ==
    \/ call.fn # "split_problems"
    \/ \A j, k \in 1..Len(call.problems) :
          j # k => ProblemPages(call.problems[j]) \cap ProblemPages(call.problems[k]) = {}

TrailingSingle(gs, L) ==
    \A k \in 2..Len(gs) :
        Len(gs[k].data) = IF k = Len(gs) /\ (L - 1) % 2 = 1 THEN 1 ELSE 2

RangeWithin(gs, L) ==
    \A k \in 1..Len(gs) :
        /\ GroupPages(gs[k]) \subseteq 1..L
        /\ call.fn = "split_twopage_range" =>
              GroupPages(gs[k]) = gs[k].page_start..gs[k].page_end

CallsInFlight(me) ==
    {k \in 1..Len(me.futures) : me.futures[k].state = "running"}

C11_CallsBoundedByPool ==
    \A i \in Invs :
        inv[i].pc = "dispatch" => Cardinality(CallsInFlight(inv[i])) <= MaxWorkers

C11_Witness ==
    \E i \in Invs :
        /\ inv[i].pc = "dispatch"
        /\ Cardinality(BatchIndices(inv[i])) > MaxWorkers
        /\ Cardinality(CallsInFlight(inv[i])) = MaxWorkers
        /\ Queued(inv[i]) # {}


\* C12: a step of an execution writes a status only in two places: the
\* deletion sweep sets the swept document deleted_applied, and the step that
\* follows the last batch of a first-pass script sets the current document,
\* and no other, processed; every call of the document has then returned and
\* been handled. The execution then leaves the document and does not come
\* back to it: the status of a selected document is written at most once,
\* and once when its processing ends without raising.
OnlyStatusOf(d, s) ==
    /\ metadata'[d].status = s
    /\ \A e \in Docs \ {d} : metadata'[e] = metadata[e]

AllHandled(me) ==
    \A k \in 1..Len(me.futures) : me.futures[k].state = "handled"

LeavesDocument(i) ==
    /\ inv[i].pc \in {"check", "fetch", "dispatch", "settle", "doc_done"}
    /\ inv'[i].docs # inv[i].docs
    /\ inv'[i].pc # "killed"

OnDocument(me) == me.pc \in {"fetch", "dispatch", "settle"}

GivesUp(i) ==
    /\ OnDocument(inv[i])
    /\ inv'[i].docs # inv[i].docs
    /\ inv'[i].pc # "killed"

C13_DocumentFailureIsLocal ==
    [][\A i \in Invs :
          LET me == inv[i]
          IN /\ (OnDocument(me) /\ Len(me.docs) > 1) => inv'[i].pc # "returned"
             /\ GivesUp(i) =>
                   /\ metadata' = metadata
                   /\ transcriptions' = transcriptions
                   /\ IF Len(me.docs) > 1
                      THEN /\ inv'[i].docs = Tail(me.docs)
                           /\ inv'[i].pc = FirstStep(me.kind)
                           /\ inv'[i].kind = me.kind
                      ELSE inv'[i].pc = "returned"]_vars

C13_Witness ==
    \E i \in Invs :
        /\ inv[i].kind = "onepage"
        /\ inv[i].pc = "doc_done"
        /\ inv[i].docs = <<"d2">>
        /\ metadata["d1"].status = "unprocessed"
        /\ metadata["d2"].status = "processed"
        /\ RecordCount(transcriptions, "d2", 1) = 1


\* C14: a page whose transcription call raised gets no record.
C14_RaisedCallLeavesNoRecord ==
    \A i \in Invs :
        inv[i].pc \in {"dispatch", "settle", "doc_done"} =>
           \A k \in 1..Len(inv[i].futures) :
              (inv[i].futures[k].state = "handled" /\ inv[i].futures[k].response = "exception")
                 => inv[i].futures[k].saved # "ok"


\* C15: in a first-pass script a page whose call returned a candidate with
\* an empty text gets no record; in the error-recovery script it gets one,
\* with the placeholder text.
C15_EmptyTextAsymmetry ==
    \A i \in Invs :
        inv[i].pc \in {"dispatch", "transcribe", "save", "settle", "doc_done"} =>
           \A k \in 1..Len(inv[i].futures) :
              (inv[i].futures[k].state = "handled" /\ inv[i].futures[k].response = "empty_text")
                 => IF FirstPass(inv[i].kind)
                    THEN inv[i].futures[k].saved # "ok"
                    ELSE inv[i].futures[k].saved # "skipped"


\* C16: what transcribe_pdf returns when the service gives no candidates
\* differs from what it returns for a candidate with an empty text, and
\* both differ from what it returns for a text.
C16_ThreeOutcomes ==
    call.fn = "transcribe_pdf" =>
        /\ TranscribePdf(call.kind, "no_candidates") # TranscribePdf(call.kind, "empty_text")
        /\ TranscribePdf(call.kind, "empty_text") # TranscribePdf(call.kind, "text")
        /\ TranscribePdf(call.kind, "no_candidates") # TranscribePdf(call.kind, "text")


\* C17: when a first-pass execution that follows a killed one brings a
\* document to processed, no page of the document is recorded twice.
AfterKilledRun(i) ==
    \E j \in Invs : j < i /\ inv[j].pc = "killed"

C17_RerunAfterCrashLeavesNoDuplicate ==
    [][\A i \in Invs :
          (/\ FirstPass(inv[i].kind)
           /\ AfterKilledRun(i)
           /\ inv[i].pc = "settle"
           /\ inv'[i].pc = "doc_done") =>
             \A p \in 1..MaxPages :
                RecordCount(transcriptions', CurrentDoc(inv[i]), p) <= 1]_vars


\* C18: every execution begins with the query of the deletion sweep, and
\* reaches the selection of its documents only from the purge of the stray
\* records of the unprocessed documents.
C18_SweepBeforeSelect ==
    [][\A i \in Invs :
          /\ (inv[i].kind = "idle" /\ inv'[i].kind # "idle") =>
                inv'[i].pc = "query_deleted"
          /\ (inv[i].pc # "select" /\ inv'[i].pc = "select") =>
                inv[i].pc \in {"query_unprocessed", "purge"}]_vars


\* C19: a page group whose call has returned can be persisted at once,
\* whatever state the calls of the other groups of its batch are in: the
\* step that handles its result is enabled.
HandlesResultOf(i, k) ==
    \E save_ok \in BOOLEAN :
       /\ HandleResult(i, save_ok)
       /\ inv'[i].futures[k].state = "handled"

C19_ReturnedResultPersistedAtOnce ==
    \A i \in Invs :
       inv[i].pc = "dispatch" =>
          \A k \in BatchIndices(inv[i]) :
             inv[i].futures[k].state = "done" => ENABLED HandlesResultOf(i, k)


\* C20: the batches of a document are dispatched one after the other. A
\* call that is submitted, running or returned but not yet handled belongs
\* to the current batch, every group of the earlier batches has been
\* handled, and the orchestrator stays in the dispatch while it is so.
InFlight(f) == f.state \in {"queued", "running", "done"}

C20_BatchesInSequence ==
    \A i \in Invs :
       \A k \in DOMAIN inv[i].futures :
          InFlight(inv[i].futures[k]) =>
             /\ inv[i].pc = "dispatch"
             /\ k \in BatchIndices(inv[i])
             /\ \A j \in 1..(inv[i].batch - 1) :
                   inv[i].futures[j].state = "handled"

\* A call of the second batch is running, after the first batch.
C20_Witness ==
    \E i \in Invs :
       /\ inv[i].pc = "dispatch"
       /\ inv[i].batch > 1
       /\ \E k \in BatchIndices(inv[i]) : inv[i].futures[k].state = "running"


\* C21: the status of a document becomes processed only in the step that
\* follows the last batch of that document, in a first-pass execution that
\* is on the document and has handled every one of its groups.
C21_ProcessedOnlyAfterOwnBatches ==
    [][\A d \in Docs :
          (metadata[d].status # "processed" /\ metadata'[d].status = "processed") =>
             \E i \in Invs :
                /\ FirstPass(inv[i].kind)
                /\ inv[i].pc = "settle"
                /\ inv'[i].pc = "doc_done"
                /\ CurrentDoc(inv[i]) = d
                /\ AllHandled(inv[i])]_vars


\* C22: the documents an execution works on are those its selection query
\* matched: when the query is made each of them has the status the script
\* targets (unprocessed for the first pass, processed for the error recovery)
\* and the selector value the script filters on; afterwards the execution's
\* list only shrinks, and every record the execution inserts belongs to the
\* document at the head of that list, whatever the documents' status and
\* selector value have become in between.
TargetStatus(kind) == IF kind = "recovery" THEN "processed" ELSE "unprocessed"

DocsOf(me) == {me.docs[k] : k \in 1..Len(me.docs)}

InsertedFor(d) ==
    \E r \in BagToSet(transcriptions') :
       /\ r.document_id = d
       /\ CopiesIn(r, transcriptions') > CopiesIn(r, transcriptions)

Dispatching(me) == me.pc = "dispatch"

C23_ShardsNeverShareDocument ==
    \A i \in Invs, j \in Invs :
       (/\ inv[i].random # inv[j].random
        /\ Dispatching(inv[i])
        /\ Dispatching(inv[j])) =>
          CurrentDoc(inv[i]) # CurrentDoc(inv[j])


\* C24: a document that has a selector value keeps it: no step changes the
\* random field of a document that holds one of the assigned values.
C24_SelectorAssignedOnce ==
    [][\A d \in Docs :
          metadata[d].random \in RandomValues =>
             metadata'[d].random = metadata[d].random]_vars


\* C25: extract_specific_pages_from_pdf returns, without raising, one group
\* per requested page that is not beyond the PDF, in the order requested
\* (a page requested twice is extracted twice): the group is labelled with
\* the page's number and holds that page alone. A requested page beyond the
\* PDF gives no group.
WithinPdf(pages, L) == SelectSeq(pages, LAMBDA p : p <= L)

C25_ExtractKeepsRequestedWithinPdf ==
    call.fn = "extract_requested" =>
       LET kept == WithinPdf(call.pages, call.L)
           groups == call.result.groups
       IN /\ call.result.ok
          /\ Len(groups) = Len(kept)
          /\ \A k \in 1..Len(kept) :
                /\ groups[k].page = kept[k]
                /\ groups[k].data = <<kept[k]>>

\* A call whose request is not ascending, names the last page of the PDF and
\* a page beyond it.
C25_Witness ==
    /\ call.fn = "extract_requested"
    /\ call.L = MaxPages
    /\ call.pages = <<MaxPages + 1, MaxPages>>
    /\ Len(call.result.groups) = 1


\* C26: a failed insert stops nothing. The step in which the insert of a
\* group fails changes no record and leaves the execution on the same
\* document, in its loop over the groups or at the status write; only the
\* kill of its process takes an execution off a document before the loop
\* over its groups has ended; when the execution reaches the status write every group has been handled, the
\* insert of every group that had a text to save has been attempted, and a
\* first-pass script then writes processed whatever inserts failed.
FailedSaves(me) == {k \in 1..Len(me.futures) : me.futures[k].saved = "failed"}

AttemptedSaves(me) == {k \in 1..Len(me.futures) : me.futures[k].saved \in {"ok", "failed"}}

HasTextToSave(me, k) ==
    IF Pooled(me.kind) THEN TranscribePdf(me.kind, me.futures[k].response) # "" ELSE TRUE

C26_FailedInsertStopsNothing ==
    [][\A i \in Invs :
          LET me == inv[i]
          IN /\ (FailedSaves(inv'[i]) # FailedSaves(me) /\ FailedSaves(inv'[i]) # {}) =>
                   /\ transcriptions' = transcriptions
                   /\ inv'[i].docs = me.docs
                   /\ inv'[i].pc \in {"dispatch", "transcribe", "settle"}
             /\ (me.pc \in {"dispatch", "transcribe", "save"} /\ inv'[i].docs # me.docs) =>
                   inv'[i].pc = "killed"
             /\ me.pc = "settle" =>
                   /\ AllHandled(me)
                   /\ \A k \in 1..Len(me.futures) :
                         HasTextToSave(me, k) => k \in AttemptedSaves(me)
             /\ (me.pc = "settle" /\ inv'[i].pc = "doc_done" /\ FirstPass(me.kind)) =>
                   metadata'[CurrentDoc(me)].status = "processed"]_vars

\* The insert of the first page failed, the insert of the second succeeded,
\* and the document has been set processed.
C26_Witness ==
    \E i \in Invs :
       /\ inv[i].pc = "doc_done"
       /\ Len(inv[i].futures) = 2
       /\ inv[i].futures[1].saved = "failed"
       /\ inv[i].futures[2].saved = "ok"
       /\ metadata[CurrentDoc(inv[i])].status = "processed"


\* C27: the purge of an execution deletes no record of a document that an
\* execution filtering on another selector value is processing.
Processing(me, d) ==
    /\ me.pc \in {"dispatch", "settle"}
    /\ CurrentDoc(me) = d

C27_PurgeSparesOtherShards ==
    [][\A i \in Invs, j \in Invs, d \in Docs :
          (/\ inv[i].pc = "purge"
           /\ inv'[i] # inv[i]
           /\ inv[j].random # inv[i].random
           /\ Processing(inv[j], d)) =>
             \A p \in 1..MaxPages :
                RecordCount(transcriptions', d, p) = RecordCount(transcriptions, d, p)]_vars


\* C28: the status write that settles a document changes the record of that
\* document and of no other.
SettlesDocument(i) ==
    /\ FirstPass(inv[i].kind)
    /\ inv[i].pc = "settle"
    /\ inv'[i].pc = "doc_done"

C28_SettleChangesOneDocument ==
    [][\A i \in Invs :
          SettlesDocument(i) =>
             \A e \in Docs \ {CurrentDoc(inv[i])} : metadata'[e] = metadata[e]]_vars


\* C29: in a run of process_workbook that has opened the workbook, every
\* problem the loop has passed has had exactly one insert attempted, keyed
\* by the document's id and the problem's number, and the problems not yet
\* passed none; the run ends only after the last problem, whatever stage
\* failed on the earlier ones. A run that finds no document or cannot open
\* the PDF attempts no insert and processes no problem.
InsertsOf(wb, problem_number) ==
    {j \in 1..Len(wb.inserts) : wb.inserts[j].problem_number = problem_number}

Passed(wb, k) == wb.pc = "done" \/ k < wb.k

C29_OneInsertPerProblem ==
    call.fn = "process_workbook" =>
       /\ \A k \in 1..Len(call.problems) :
             Cardinality(InsertsOf(call, call.problems[k].problem_number)) =
                IF call.pc \in {"not_found", "download", "failed"} THEN 0
                ELSE IF Passed(call, k) THEN 1 ELSE 0
       /\ \A j \in 1..Len(call.inserts) :
             call.inserts[j].document_id = call.document_id
       /\ call.pc \in {"not_found", "failed"} => call.k = 0
       /\ call.pc = "save_empty" => call.question = ""

\* C29 as stated: when a run of process_workbook has ended, every problem of
\* the problems file has had exactly one insert attempted.
C29_EveryProblemInserted ==
    (call.fn = "process_workbook" /\ call.pc \in {"done", "failed", "not_found"}) =>
       \A k \in 1..Len(call.problems) :
          Cardinality(InsertsOf(call, call.problems[k].problem_number)) = 1

\* The split of the first problem raised and its empty record was inserted;
\* the second problem was then transcribed and its insert attempted.
C29_Witness ==
    /\ call.fn = "process_workbook"
    /\ call.pc = "done"
    /\ Len(call.inserts) = 2
    /\ call.inserts[1].question = ""
    /\ call.inserts[1].stored
    /\ call.inserts[2].question = "text"
    /\ call.inserts[2].analysis = ""


\* C30: the step of the error recovery on a document whose lookup of
\* recorded pages fails, or that has no total_pages, changes no record and no
\* status and dispatches nothing: the execution is then on the next selected
\* document, or has returned after the last one.
SkipsDocument(i) ==
    /\ inv[i].pc = "check"
    /\ \/ CheckMissing(i, FALSE)
       \/ metadata[CurrentDoc(inv[i])].total_pages = 0 /\ CheckMissing(i, TRUE)

C30_FailedLookupSkipsDocument ==
    [][\A i \in Invs :
          SkipsDocument(i) =>
             /\ transcriptions' = transcriptions
             /\ metadata' = metadata
             /\ inv'[i].futures = <<>>
             /\ inv'[i].split_pdfs = <<>>
             /\ IF Len(inv[i].docs) > 1
                THEN inv'[i].docs = Tail(inv[i].docs) /\ inv'[i].pc = "check"
                ELSE inv'[i].pc = "returned"]_vars

\* The lookup failed for d1 and the execution is on d2, the next document.
C30_Witness ==
    \E i \in Invs :
       /\ inv[i].kind = "recovery"
       /\ inv[i].pc = "check"
       /\ inv[i].docs = <<"d2">>
       /\ inv[i].report["d1"] = "lookup_failed"


\* C31: an execution that has started ends; while it runs it takes each
\* selected document once (the selection has no document twice and the list
\* of documents only loses its head), and on a document each page group is
\* submitted once: the groups of a document are distinct pages, and a group's
\* task only moves forward, from unsubmitted to queued, running, returned
\* and handled, never back to the queue.
Rank(state) ==
    CASE state = "unsubmitted" -> 0
      [] state = "queued" -> 1
      [] state = "running" -> 2
      [] state = "done" -> 3
      [] state = "handled" -> 4

NoRepeat(seq) == \A a \in 1..Len(seq), b \in 1..Len(seq) : seq[a] = seq[b] => a = b

Active(me) == me.kind \notin {"idle", "finished"}

OnceEach(i) ==
    LET me == inv[i]
    IN /\ (Active(me) /\ inv'[i].docs # me.docs) =>
             /\ NoRepeat(inv'[i].docs)
             /\ me.docs # <<>> => inv'[i].docs \in {Tail(me.docs), <<>>}
       /\ (Active(me) /\ inv'[i].docs = me.docs /\ me.split_pdfs # <<>>) =>
             /\ inv'[i].split_pdfs = me.split_pdfs
             /\ \A k \in 1..Len(me.futures) :
                   Rank(inv'[i].futures[k].state) >= Rank(me.futures[k].state)
       /\ NoRepeat([k \in 1..Len(inv'[i].split_pdfs) |-> inv'[i].split_pdfs[k].page])

C31_TerminatesWithoutRetry ==
    /\ [][\A i \in Invs : OnceEach(i)]_vars
    /\ \A i \in Invs : Active(inv[i]) ~> (inv[i].kind = "finished")

\* The execution has returned after the second of two documents, with every
\* page of the first recorded.
C31_Witness ==
    /\ inv[1].kind = "finished"
    /\ inv[1].pc = "returned"
    /\ \A p \in 1..MaxPages : RecordCount(transcriptions, "d1", p) = 1
    /\ RecordCount(transcriptions, "d2", 1) = 1
    /\ \A d \in Docs : metadata[d].status = "processed"

====
